---- MODULE Spec2Model ----
(***************************************************************************)
(* State-machine model of ToupCameraManager (src/camera_manager.py): the   *)
(* background polling loop, the single-slot frame cache shared with        *)
(* readers, the hardware still-capture hand-shake and the open / close /   *)
(* set_resolution lifecycle.  Threads interleave between the statements    *)
(* that read or write shared fields; each action is one such step of one   *)
(* thread, named after the method it belongs to.                           *)
(***************************************************************************)
EXTENDS Integers, Sequences, FiniteSets, TLC

(***************************************************************************)
(* Bounds of the model.                                                    *)
(***************************************************************************)
\* preview frames the device delivers in one run
MaxFrames == 3
\* capture_still_image calls in one run
MaxRequests == 2
\* device handles that can be open at once
MaxHandles == 2

\* the threading.Thread objects of the polling loop: the one the engine
\* started last and one it started before (whose join timed out)
Threads == {1, 2}
Handles == 1..MaxHandles
Callers == {"c1", "c2"}
Readers == {"r1", "r2"}
Filenames == {"a.jpg", "b.jpg"}

\* Python's None for the integer-valued fields (hcam, cur, _poll_thread, pData)
None == 0
\* Python's None for _current_frame, _still_image, _still_filename
NoFrame == [seq |-> 0, res |-> <<0, 0>>]
NoStill == [origin |-> 0, req |-> 0]
NoFile == "none"

(***************************************************************************)
(* The devices EnumV2 can report.  model.res is ordered from the highest   *)
(* resolution to the lowest, index 0 being the highest: the order the      *)
(* repository relies on (camera_manager.py:131,138; dia.py:34-35).  The    *)
(* first `preview` entries are the preview modes, the first `still` ones   *)
(* the still modes.                                                        *)
(***************************************************************************)
CamA == [id |-> 1, preview |-> 2, still |-> 0,
         res |-> << <<1920, 1080>>, <<640, 480>> >>]
CamB == [id |-> 2, preview |-> 3, still |-> 2,
         res |-> << <<4000, 3000>>, <<2000, 1500>>, <<642, 480>> >>]
Cameras == {CamA, CamB}
CamIds == {c.id : c \in Cameras}
Cam(id) == CHOOSE c \in Cameras : c.id = id
\* what EnumV2 returns: nothing attached, one camera, or both
EnumResults == { <<>>, <<CamA.id>>, <<CamB.id, CamA.id>> }
\* the camera_id argument of open_camera: None, an attached id, an unknown id
CameraIdArgs == {None, 1, 2, 9}
\* the index argument of set_resolution
IndexArgs == -1..3

\* cur.model.res[i].width / .height with Python's 0-based index i
Width(id, i) == Cam(id).res[i + 1][1]
Height(id, i) == Cam(id).res[i + 1][2]

\* toupcam.TDIBWIDTHBYTES(bits): the scan-line stride in bytes, rows padded to 4
TDIBWIDTHBYTES(bits) == ((bits + 31) \div 32) * 4
\* bytes(TDIBWIDTHBYTES(width * 24) * height): the size of the pixel buffer
BufSize(w, h) == TDIBWIDTHBYTES(w * 24) * h

\* toupcam.TOUPCAM_TEMP_DEF and toupcam.TOUPCAM_TINT_DEF (lines 26-27)
TOUPCAM_TEMP_DEF == 6503
TOUPCAM_TINT_DEF == 1000

\* the settings of a device that has just been opened
DeviceDefaults ==
  [auto |-> 1, expo |-> 0, gain |-> 100,
   wb |-> <<TOUPCAM_TEMP_DEF, TOUPCAM_TINT_DEF>>]

VARIABLES
  \* ---- ToupCameraManager fields (__init__) ----
  hcam,             \* device handle, None when closed
  cur,              \* id of the selected device descriptor, None when closed
  res,              \* streaming resolution index
  snap_res,         \* capture resolution index
  img_width, img_height,
  pData,            \* size in bytes of the pixel buffer, None when released
  temp, tint,       \* white balance last set or read back
  capture_count,
  frame_count,      \* frames counted at the fps rollovers so far
  fps,              \* the fps estimate: <<frames, seconds>> stands for frames / seconds
  current_frame,    \* _current_frame: the cached preview frame
  frame_available,  \* _frame_available: threading.Event flag
  running,          \* _running
  poll_thread,      \* _poll_thread: the Thread object held, None if none
  still_image,      \* _still_image
  still_requested,  \* _still_requested
  still_complete,   \* _still_complete: threading.Event flag
  still_filename,   \* _still_filename
  \* ---- the device behind the toupcam SDK ----
  dev_open,         \* handles opened and not yet closed
  dev_started,      \* handles whose pull-mode session is started
  dev_snaps,        \* Snap triggers accepted whose still frame is not ready yet
  dev_stills,       \* still frames ready to be pulled, oldest first
  dev_res,          \* the resolution index the device has adopted (put_eSize)
  dev_cfg,          \* exposure, gain and white balance settings of the device
  now,              \* time.time(), in seconds
  metered,          \* whether the behaviour follows the fps bookkeeping of lines
                    \* 190-208; where it does not, the counters of the polling
                    \* threads are left out (only get_camera_info reads them)
  \* ---- thread.py: the serial capture session ----
  current_session_dir,  \* the session folder, None before the first session
  session_locked,
  session_dirs,     \* the session folders that exist under CAPTURE_ROOT
  session_files,    \* the session folders a capture was stored in
  serial_log,       \* what the serial thread printed last
  \* ---- threads ----
  th,               \* poll threads:   [Threads -> record]
  cl,               \* caller threads: [Callers -> record]
  rd,               \* stream readers: [Readers -> record]
  \* ---- history ----
  pub_count,        \* frames published to the cache so far
  set_count,        \* _frame_available.set() calls so far
  nreq,             \* capture_still_image calls so far
  slot_req,         \* the request that last wrote _still_filename
  files,            \* what is stored under each filename
  outcome           \* how each capture_still_image call ended

wb == <<temp, tint>>
engine == <<hcam, cur, res, snap_res, img_width, img_height, pData, wb>>
cache == <<current_frame, frame_available>>
loopctl == <<running, poll_thread>>
still == <<still_image, still_requested, still_complete, still_filename>>
dev_mode == <<dev_res, dev_cfg>>
device == <<dev_open, dev_started, dev_snaps, dev_stills, dev_mode>>
session == <<current_session_dir, session_locked, session_dirs, session_files,
            serial_log>>
stats == <<frame_count, fps>>
clock == <<now, metered>>
meter == <<stats, clock>>
pubs == <<pub_count, set_count>>
hist == <<pubs, nreq, slot_req, files, outcome>>
vars == <<engine, cache, loopctl, still, device, capture_count, meter, session,
          th, cl, rd, hist>>

\* an is_open that looks at the handle only
IsOpenHandleOnly == hcam # None

\* is_open property
is_open == hcam # None /\ running

\* get_camera_info()["connected"] (lines 543-547)
CameraInfoConnected == IF cur = None THEN FALSE ELSE is_open

\* n is frame_count_for_fps and last is last_fps_time (lines 190-191); dt is
\* now - last_fps_time as read at line 204 and fc the frame_count read at line
\* 206; mark is the number of frames published when the fps window began and
\* win the number of frames published in the window that has just ended
DeadThread == [pc |-> "dead", handler |-> FALSE, jpeg |-> NoFrame, buf |-> 0,
               n |-> 0, last |-> 0, dt |-> 0, fc |-> 0, mark |-> 0, win |-> 0]

\* self.fps = 0.0 (line 29)
NoRate == <<0, 1>>
IdleCaller == [pc |-> "idle", op |-> "none", result |-> "none", file |-> NoFile,
               req |-> 0, index |-> 0, was_running |-> FALSE, then |-> "return",
               pub0 |-> 0]
IdleReader == [pc |-> "idle", op |-> "none", seen |-> 0, prev |-> 0,
               got |-> NoFrame, start |-> 0, timed_out |-> FALSE]

Alive(t) == th[t].pc # "dead"

(***************************************************************************)
(* __init__: the state after construction.                                 *)
(***************************************************************************)
Init ==
  /\ hcam = None /\ cur = None /\ res = 0 /\ snap_res = 0
  /\ img_width = 0 /\ img_height = 0 /\ pData = None
  /\ temp = TOUPCAM_TEMP_DEF /\ tint = TOUPCAM_TINT_DEF
  /\ capture_count = 0 /\ frame_count = 0 /\ fps = NoRate /\ now = 0
  /\ current_session_dir = None /\ session_locked = FALSE
  /\ session_dirs = {} /\ session_files = {} /\ serial_log = "none"
  /\ metered = FALSE
  /\ current_frame = NoFrame /\ frame_available = FALSE
  /\ running = FALSE /\ poll_thread = None
  /\ still_image = NoStill /\ still_requested = FALSE
  /\ still_complete = FALSE /\ still_filename = NoFile
  /\ dev_open = {} /\ dev_started = {} /\ dev_snaps = <<>> /\ dev_stills = <<>>
  /\ dev_res = 0 /\ dev_cfg = DeviceDefaults
  /\ th = [t \in Threads |-> DeadThread]
  /\ cl = [c \in Callers |-> IdleCaller]
  /\ rd = [r \in Readers |-> IdleReader]
  /\ pub_count = 0 /\ set_count = 0 /\ nreq = 0 /\ slot_req = 0
  /\ files = [f \in Filenames |-> NoStill]
  /\ outcome = [q \in 1..MaxRequests |-> "none"]

(***************************************************************************)
(* The state open_camera leaves behind when it succeeds on camera `id`     *)
(* from the constructed state (lines 125-160): the starting point of the   *)
(* specifications that study a running engine.                             *)
(***************************************************************************)
OpenedState(id) ==
  /\ hcam = 1 /\ cur = id /\ res = Cam(id).preview - 1 /\ snap_res = 0
  /\ img_width = Width(id, Cam(id).preview - 1)
  /\ img_height = Height(id, Cam(id).preview - 1)
  /\ pData = BufSize(Width(id, Cam(id).preview - 1), Height(id, Cam(id).preview - 1))
  /\ temp = TOUPCAM_TEMP_DEF /\ tint = TOUPCAM_TINT_DEF
  /\ capture_count = 0 /\ frame_count = 0 /\ fps = NoRate /\ now = 0
  /\ current_session_dir = None /\ session_locked = FALSE
  /\ session_dirs = {} /\ session_files = {} /\ serial_log = "none"
  /\ current_frame = NoFrame /\ frame_available = FALSE
  /\ running = TRUE /\ poll_thread = 1
  /\ still_image = NoStill /\ still_requested = FALSE
  /\ still_complete = FALSE /\ still_filename = NoFile
  /\ dev_open = {1} /\ dev_started = {1} /\ dev_snaps = <<>> /\ dev_stills = <<>>
  /\ dev_res = Cam(id).preview - 1 /\ dev_cfg = DeviceDefaults
  /\ th = [t \in Threads |-> IF t = 1 THEN [DeadThread EXCEPT !.pc = "while"]
                                      ELSE DeadThread]
  /\ cl = [c \in Callers |-> IdleCaller]
  /\ rd = [r \in Readers |-> IdleReader]
  /\ pub_count = 0 /\ set_count = 0 /\ nreq = 0 /\ slot_req = 0
  /\ files = [f \in Filenames |-> NoStill]
  /\ outcome = [q \in 1..MaxRequests |-> "none"]

InitOpened(id) == OpenedState(id) /\ metered = FALSE

(***************************************************************************)
(* _poll_frames: the background thread.  One action per statement that     *)
(* touches shared state; th[t].pc is the statement thread t executes next. *)
(***************************************************************************)
ThreadStep(t, rec) == th' = [th EXCEPT ![t] = rec]

\* `while self._running and self.hcam:` (line 193); the thread ends otherwise
LoopWhile(t) ==
  /\ th[t].pc = "while"
  /\ ThreadStep(t, IF running /\ hcam # None
                   THEN [th[t] EXCEPT !.pc = "pull", !.handler = FALSE]
                   ELSE DeadThread)
  /\ UNCHANGED <<meter, session, engine, cache, loopctl, still, device, capture_count, cl, rd, hist>>

\* frames held by threads between WaitImageV4 and their publication
InFlight == Cardinality({t \in Threads : th[t].pc \in {"process", "publish"}})

\* How self.hcam.WaitImageV4(50, self.pData, ...) (line 196) can end:
\*   "attr"    hcam is None by now: AttributeError, caught at line 219
\*             (th[t].pc = "except")
\*   "hresult" HRESULTException (no frame within 50 ms, or the session is
\*             stopped or closed), caught at line 214
\*   "frame"   a frame was copied into pData
WaitImageOutcomes ==
  IF hcam = None THEN {"attr"}
  ELSE IF hcam \notin dev_started THEN {"hresult"}
  ELSE IF pub_count + InFlight < MaxFrames THEN {"frame", "hresult"}
  ELSE {"hresult"}

\* a loop that a failed pull ends
PullFailureFatal(rec) == DeadThread

\* `except toupcam.HRESULTException` (line 214): the thread goes on with the
\* still check of its handler
OnPullFailure(rec) == [rec EXCEPT !.pc = "still_chk", !.handler = TRUE]

LoopPull(t) ==
  /\ th[t].pc = "pull"
  /\ \E o \in WaitImageOutcomes :
       ThreadStep(t, CASE o = "attr" -> [th[t] EXCEPT !.pc = "except"]
                       [] o = "hresult" -> OnPullFailure(th[t])
                       [] OTHER -> [th[t] EXCEPT !.pc = "process"])
  /\ UNCHANGED <<meter, session, engine, cache, loopctl, still, device, capture_count, cl, rd, hist>>

\* the length of the fps window in seconds (line 204)
FpsWindow == 1

\* lines 202-204, reached when _process_frame has returned, whether it
\* published a frame or swallowed an exception: frame_count_for_fps += 1,
\* now = time.time(), and the test `now - last_fps_time >= 1.0`
Counted(rec) ==
  IF metered THEN
    IF now - rec.last >= FpsWindow
    THEN [rec EXCEPT !.n = @ + 1, !.dt = now - rec.last, !.pc = "rollover",
                     !.win = pub_count - rec.mark, !.mark = pub_count]
    ELSE [rec EXCEPT !.n = @ + 1, !.pc = "still_chk"]
  ELSE [rec EXCEPT !.pc = "still_chk"]

\* _process_frame, lines 280-302: repack and encode pData at img_width x
\* img_height.  Any exception (pData released, or not the size of the
\* current resolution) is swallowed at line 308 and nothing is published.
LoopProcess(t) ==
  /\ th[t].pc = "process"
  /\ ThreadStep(t, IF pData # None /\ pData = BufSize(img_width, img_height)
                   THEN [th[t] EXCEPT !.pc = "publish",
                                      !.jpeg = [seq |-> 0,
                                                 res |-> <<img_width, img_height>>]]
                   ELSE Counted(th[t]))
  /\ UNCHANGED <<meter, session, engine, cache, loopctl, still, device, capture_count, cl, rd, hist>>

\* a cache that keeps the frame it holds and drops the published one
PublishKeepsHeld(held, jpeg, n) ==
  IF held = NoFrame THEN [seq |-> n, res |-> jpeg.res] ELSE held

\* the frame the cache holds after publishing frame `jpeg` as the n-th one
Publish(held, jpeg, n) == [seq |-> n, res |-> jpeg.res]

\* `with self._frame_lock: self._current_frame = jpeg_bytes` (lines 304-305)
LoopPublish(t) ==
  /\ th[t].pc = "publish"
  /\ current_frame' = Publish(current_frame, th[t].jpeg, pub_count + 1)
  /\ pub_count' = pub_count + 1
  /\ ThreadStep(t, [th[t] EXCEPT !.pc = "notify", !.jpeg = NoFrame])
  /\ UNCHANGED <<meter, session, engine, frame_available, loopctl, still, device, capture_count,
                 cl, rd, set_count, nreq, slot_req, files, outcome>>

\* threading.Event.set(): the flag is set and every thread blocked in wait()
\* is notified (it returns True whatever happens to the flag afterwards)
NotifyReaders ==
  [r \in Readers |-> IF rd[r].pc = "blocked" THEN [rd[r] EXCEPT !.pc = "clear"]
                                             ELSE rd[r]]
NotifyCallers ==
  [c \in Callers |-> IF cl[c].pc = "blocked" THEN [cl[c] EXCEPT !.pc = "woken"]
                                             ELSE cl[c]]

\* `self._frame_available.set()` (line 306), then the fps bookkeeping of
\* lines 202-204 on the thread's own counters
LoopNotify(t) ==
  /\ th[t].pc = "notify"
  /\ frame_available' = TRUE
  /\ rd' = NotifyReaders
  /\ set_count' = set_count + 1
  /\ ThreadStep(t, Counted(th[t]))
  /\ UNCHANGED <<meter, session, engine, current_frame, loopctl, still, device, capture_count,
                 cl, pub_count, nreq, slot_req, files, outcome>>

\* frame_count_for_fps / (now - last_fps_time), line 205
Rate(n, dt) == <<n, dt>>

\* line 205 and the first half of line 206: the estimate is stored and
\* self.frame_count is read for the addition
LoopRollover(t) ==
  /\ th[t].pc = "rollover"
  /\ fps' = Rate(th[t].n, th[t].dt)
  /\ ThreadStep(t, [th[t] EXCEPT !.pc = "accumulate", !.fc = frame_count])
  /\ UNCHANGED <<frame_count, clock, session, engine, cache, loopctl, still, device,
                 capture_count, cl, rd, hist>>

\* the second half of line 206 and lines 207-208: the sum is stored in
\* self.frame_count and the window starts again at the time read at line 203
LoopAccumulate(t) ==
  /\ th[t].pc = "accumulate"
  /\ frame_count' = th[t].fc + th[t].n
  /\ ThreadStep(t, [th[t] EXCEPT !.pc = "still_chk", !.n = 0, !.fc = 0,
                                 !.last = @ + th[t].dt, !.dt = 0, !.win = 0])
  /\ UNCHANGED <<fps, clock, session, engine, cache, loopctl, still, device, capture_count,
                 cl, rd, hist>>

\* `if self._still_requested:` at line 211 (after a frame) or at line 216
\* (inside the HRESULTException handler, th[t].handler), then time.sleep
LoopStillCheck(t) ==
  /\ th[t].pc = "still_chk"
  /\ ThreadStep(t, IF still_requested THEN [th[t] EXCEPT !.pc = "peek"]
                                      ELSE [th[t] EXCEPT !.pc = "while"])
  /\ UNCHANGED <<meter, session, engine, cache, loopctl, still, device, capture_count, cl, rd, hist>>

\* a loop that stays at the peek until a still is ready
EmptyPeekRetries(rec) == rec

\* lines 243-245: no still is ready; _try_pull_still_image returns and the
\* loop goes to its next iteration
AfterEmptyPeek(rec) == [rec EXCEPT !.pc = "while"]

\* _try_pull_still_image, lines 227-234: peek the still queue and, when a
\* still frame is ready, pull it.  An HRESULTException means "not ready"
\* (line 243).  With hcam None the AttributeError leaves the method: line
\* 219 catches it when the call came from line 212, and it ends the thread
\* when the call came from the handler at line 217.
LoopPeek(t) ==
  /\ th[t].pc = "peek"
  /\ IF hcam = None
     THEN /\ ThreadStep(t, IF th[t].handler THEN DeadThread
                                            ELSE [th[t] EXCEPT !.pc = "except"])
          /\ UNCHANGED dev_stills
     ELSE IF hcam \notin dev_open \/ dev_stills = <<>>
     THEN /\ ThreadStep(t, AfterEmptyPeek(th[t]))
          /\ UNCHANGED dev_stills
     ELSE /\ ThreadStep(t, [th[t] EXCEPT !.pc = "save", !.buf = Head(dev_stills)])
          /\ dev_stills' = Tail(dev_stills)
  /\ UNCHANGED <<meter, session, engine, cache, loopctl, still, dev_open, dev_started, dev_snaps,
                 dev_mode, capture_count, cl, rd, hist>>

\* _save_still_image (lines 247-276), called at line 239: the image is saved
\* under the _still_filename read at that moment and kept as _still_image;
\* an encode or save failure is swallowed at line 275 (ok = FALSE)
LoopSave(t) ==
  /\ th[t].pc = "save"
  /\ \E ok \in BOOLEAN :
       /\ files' = IF ok /\ still_filename # NoFile
                   THEN [files EXCEPT ![still_filename] =
                           [origin |-> th[t].buf, req |-> slot_req]]
                   ELSE files
       /\ still_image' = IF ok THEN [origin |-> th[t].buf, req |-> slot_req]
                               ELSE still_image
  /\ ThreadStep(t, [th[t] EXCEPT !.pc = "unrequest", !.buf = 0])
  /\ UNCHANGED <<meter, session, engine, cache, loopctl, still_requested, still_complete,
                 still_filename, device, capture_count, cl, rd, pubs, nreq,
                 slot_req, outcome>>

\* `self._still_requested = False` (line 241)
LoopUnrequest(t) ==
  /\ th[t].pc = "unrequest"
  /\ still_requested' = FALSE
  /\ ThreadStep(t, [th[t] EXCEPT !.pc = "complete"])
  /\ UNCHANGED <<meter, session, engine, cache, loopctl, still_image, still_complete,
                 still_filename, device, capture_count, cl, rd, hist>>

\* `self._still_complete.set()` (line 242)
LoopComplete(t) ==
  /\ th[t].pc = "complete"
  /\ still_complete' = TRUE
  /\ cl' = NotifyCallers
  /\ ThreadStep(t, [th[t] EXCEPT !.pc = "while"])
  /\ UNCHANGED <<meter, session, engine, cache, loopctl, still_image, still_requested,
                 still_filename, device, capture_count, rd, hist>>

\* `except Exception` (lines 219-221): the error is printed and, after
\* time.sleep(0.1), the loop goes to its next iteration; no still check
LoopExcept(t) ==
  /\ th[t].pc = "except"
  /\ ThreadStep(t, [th[t] EXCEPT !.pc = "while"])
  /\ UNCHANGED <<meter, session, engine, cache, loopctl, still, device, capture_count, cl, rd, hist>>

PollFrames(t) ==
  \/ LoopWhile(t) \/ LoopPull(t) \/ LoopProcess(t) \/ LoopPublish(t)
  \/ LoopNotify(t) \/ LoopStillCheck(t) \/ LoopPeek(t) \/ LoopSave(t)
  \/ LoopUnrequest(t) \/ LoopComplete(t) \/ LoopExcept(t)

(***************************************************************************)
(* The device's still pipeline: the Snap triggers it accepted are served   *)
(* in order; each yields its still frame some time later, or never (the    *)
(* trigger is lost).                                                       *)
(***************************************************************************)
DeviceStillReady ==
  /\ dev_snaps # <<>>
  /\ dev_snaps' = Tail(dev_snaps)
  /\ dev_stills' = Append(dev_stills, Head(dev_snaps))
  /\ UNCHANGED <<meter, session, engine, cache, loopctl, still, dev_open, dev_started, dev_mode,
                 capture_count, th, cl, rd, hist>>

DeviceStillLost ==
  /\ dev_snaps # <<>>
  /\ dev_snaps' = Tail(dev_snaps)
  /\ UNCHANGED <<meter, session, engine, cache, loopctl, still, dev_open, dev_started, dev_stills,
                 dev_mode, capture_count, th, cl, rd, hist>>

(***************************************************************************)
(* capture_still_image (lines 322-379), one caller thread c.               *)
(***************************************************************************)
CallerStep(c, rec) == cl' = [cl EXCEPT ![c] = rec]
\* the call returns (or raises): its locals are gone
Return(c, op, result) ==
  [IdleCaller EXCEPT !.op = op, !.result = result, !.file = cl[c].file,
                     !.req = cl[c].req]

\* a capture_still_image that always goes for the hardware trigger
SoftwareStillNever(id) == FALSE

\* line 342, `if still_count == 0:`: the device has no dedicated still mode
\* and a capture is served from the preview frame in the cache
SoftwareStill(id) == Cam(id).still = 0

\* Lines 333-362.  "Camera not open" when hcam is None; with no dedicated
\* still resolution the current preview frame is written out (lines
\* 342-351; the file's origin is then minus the frame's number); otherwise the request is recorded: _still_filename and
\* _still_requested are written without looking at a pending request.
CaptureCall(c) ==
  /\ cl[c].pc = "idle"
  /\ nreq < MaxRequests
  /\ \E filename \in Filenames :
       IF hcam = None THEN
         /\ CallerStep(c, Return(c, "capture", "not_open"))
         /\ UNCHANGED <<still_filename, still_requested, capture_count, hist>>
       ELSE IF cur = None THEN
         \* self.cur.model: AttributeError on None
         /\ CallerStep(c, Return(c, "capture", "error"))
         /\ UNCHANGED <<still_filename, still_requested, capture_count, hist>>
       ELSE IF SoftwareStill(cur) THEN
         /\ nreq' = nreq + 1
         /\ IF current_frame # NoFrame
            THEN /\ files' = [files EXCEPT ![filename] =
                                [origin |-> -current_frame.seq, req |-> nreq + 1]]
                 /\ capture_count' = capture_count + 1
                 /\ outcome' = [outcome EXCEPT ![nreq + 1] = "ok"]
                 /\ CallerStep(c, [Return(c, "capture", "ok") EXCEPT
                                     !.file = filename, !.req = nreq + 1])
            ELSE /\ CallerStep(c, [Return(c, "capture", "no_frame") EXCEPT
                                     !.file = filename, !.req = nreq + 1])
                 /\ outcome' = [outcome EXCEPT ![nreq + 1] = "no_frame"]
                 /\ UNCHANGED <<files, capture_count>>
         /\ UNCHANGED <<still_filename, still_requested, pubs, slot_req>>
       ELSE
         /\ nreq' = nreq + 1
         /\ still_filename' = filename
         /\ still_requested' = TRUE
         /\ slot_req' = nreq + 1
         /\ CallerStep(c, [cl[c] EXCEPT !.pc = "clear", !.op = "capture",
                                        !.result = "none", !.file = filename,
                                        !.req = nreq + 1, !.pub0 = pub_count])
         /\ UNCHANGED <<capture_count, pubs, files, outcome>>
  /\ UNCHANGED <<meter, session, engine, cache, loopctl, still_image, still_complete, device,
                 th, rd>>

\* `self._still_complete.clear()` (line 363)
CaptureClear(c) ==
  /\ cl[c].pc = "clear"
  /\ still_complete' = FALSE
  /\ CallerStep(c, [cl[c] EXCEPT !.pc = "snap"])
  /\ UNCHANGED <<meter, session, engine, cache, loopctl, still_image, still_requested,
                 still_filename, device, capture_count, th, rd, hist>>

\* line 370: the flag value capture_still_image leaves in _still_requested
\* when Snap raised HRESULTException
SnapFailureFlag(flag) == FALSE

\* How self.hcam.Snap(resolution_index) (line 368) can end:
\*   "attr"    hcam is None by now: AttributeError, not handled
\*   "hresult" the device refuses the trigger (always, once the handle is
\*             closed): lines 369-371
\*   "ok"      the trigger is accepted
SnapOutcomes ==
  IF hcam = None THEN {"attr"}
  ELSE IF hcam \notin dev_open THEN {"hresult"}
  ELSE {"ok", "hresult"}

CaptureSnap(c) ==
  /\ cl[c].pc = "snap"
  /\ \E o \in SnapOutcomes :
       /\ dev_snaps' = IF o = "ok" THEN Append(dev_snaps, cl[c].req) ELSE dev_snaps
       /\ still_requested' = IF o = "hresult" THEN SnapFailureFlag(still_requested)
                                              ELSE still_requested
       /\ CallerStep(c, CASE o = "ok" -> [cl[c] EXCEPT !.pc = "wait"]
                          [] o = "hresult" -> Return(c, "capture", "snap_failed")
                          [] OTHER -> Return(c, "capture", "error"))
       /\ outcome' = CASE o = "ok" -> outcome
                        [] o = "hresult" ->
                             [outcome EXCEPT ![cl[c].req] = "snap_failed"]
                        [] OTHER -> [outcome EXCEPT ![cl[c].req] = "error"]
  /\ UNCHANGED <<meter, session, engine, cache, loopctl, still_image, still_complete,
                 still_filename, dev_open, dev_started, dev_stills, dev_mode,
                 capture_count, th, rd, pubs, nreq, slot_req, files>>

\* `self._still_complete.wait(timeout=10.0)` (line 374) is entered: it
\* returns True at once when the flag is set, and blocks otherwise
CaptureWait(c) ==
  /\ cl[c].pc = "wait"
  /\ CallerStep(c, [cl[c] EXCEPT !.pc = IF still_complete THEN "woken"
                                                          ELSE "blocked"])
  /\ UNCHANGED <<meter, session, engine, cache, loopctl, still, device, capture_count, th, rd,
                 hist>>

\* wait() returned True: lines 375-376
CaptureSuccess(c) ==
  /\ cl[c].pc = "woken"
  /\ capture_count' = capture_count + 1
  /\ CallerStep(c, Return(c, "capture", "ok"))
  /\ outcome' = [outcome EXCEPT ![cl[c].req] = "ok"]
  /\ UNCHANGED <<meter, session, engine, cache, loopctl, still, device, th, rd, pubs, nreq,
                 slot_req, files>>

\* the 10 s of wait() elapse without a notification: it returns False
CaptureWaitExpires(c) ==
  /\ cl[c].pc = "blocked"
  /\ CallerStep(c, [cl[c] EXCEPT !.pc = "expired"])
  /\ UNCHANGED <<meter, session, engine, cache, loopctl, still, device, capture_count, th, rd,
                 hist>>

\* a timeout path that forgets to withdraw the request
TimeoutFlagKept(flag) == flag

\* the flag value capture_still_image leaves in _still_requested on timeout
TimeoutFlag(flag) == FALSE

\* lines 377-379: `self._still_requested = False`, "Still capture timeout"
CaptureTimeout(c) ==
  /\ cl[c].pc = "expired"
  /\ still_requested' = TimeoutFlag(still_requested)
  /\ CallerStep(c, Return(c, "capture", "timeout"))
  /\ outcome' = [outcome EXCEPT ![cl[c].req] = "timeout"]
  /\ UNCHANGED <<meter, session, engine, cache, loopctl, still_image, still_complete,
                 still_filename, device, capture_count, th, rd, pubs, nreq,
                 slot_req, files>>

CaptureStillImage(c) ==
  \/ CaptureCall(c) \/ CaptureClear(c) \/ CaptureSnap(c) \/ CaptureWait(c)
  \/ CaptureSuccess(c) \/ CaptureWaitExpires(c) \/ CaptureTimeout(c)

(***************************************************************************)
(* SpecCapture: a running engine on a camera with dedicated still modes,   *)
(* its polling loop, the device's still pipeline and one caller issuing    *)
(* capture_still_image calls one after the other.  SpecCaptureRace is the  *)
(* same with two callers whose calls overlap.                              *)
(***************************************************************************)
InitCapture == InitOpened(CamB.id)

LoopCapture(t) ==
  \/ LoopWhile(t) \/ LoopPull(t) \/ LoopProcess(t) \/ LoopPublish(t)
  \/ LoopNotify(t) \/ LoopStillCheck(t) \/ LoopPeek(t) \/ LoopSave(t)
  \/ LoopUnrequest(t) \/ LoopComplete(t)

NextCapture ==
  \/ LoopCapture(1)
  \/ DeviceStillReady
  \/ DeviceStillLost
  \/ CaptureStillImage("c1")

SpecCapture == InitCapture /\ [][NextCapture]_vars

NextCaptureRace ==
  \/ LoopCapture(1)
  \/ DeviceStillReady
  \/ DeviceStillLost
  \/ \E c \in Callers : CaptureStillImage(c)

SpecCaptureRace == InitCapture /\ [][NextCaptureRace]_vars

(***************************************************************************)
(* Claims about the still-capture hand-shake.                              *)
(***************************************************************************)
\* caller c has a hardware still request outstanding
Outstanding(c) ==
  cl[c].pc \in {"clear", "snap", "wait", "blocked", "woken", "expired"}

\* C1: still-capture exclusivity.  At no time are two hardware still
\* requests outstanding, and while a caller waits for its still frame the
\* request slot still holds that caller's own request and destination
\* filename (a second capture_still_image call fails fast and leaves the
\* first request untouched).
C1_StillExclusive ==
  /\ \A c1, c2 \in Callers : Outstanding(c1) /\ Outstanding(c2) => c1 = c2
  /\ \A c \in Callers :
       cl[c].pc = "blocked" => slot_req = cl[c].req /\ still_filename = cl[c].file

\* C2: a still frame is only ever stored for the request whose Snap
\* produced it.  A frame that became ready after its request timed out is
\* discarded: it is never kept as the still image of, nor saved under the
\* filename of, a later request.
C2_LateStillDiscarded ==
  /\ still_image.origin = still_image.req
  /\ \A f \in Filenames : files[f].origin <= 0 \/ files[f].origin = files[f].req

\* C3: a hardware still request the loop never resolves does not hang its
\* caller.  In every state the waiting caller can take a step, and when it
\* handles the expiry with the completion signal still unset it reports a
\* timeout and leaves the coordinator idle: no request pending, completion
\* signal not set.
C3_TimeoutReturnsToIdle ==
  /\ [](\A c \in Callers :
          cl[c].pc \in {"wait", "blocked", "expired"} => ENABLED CaptureStillImage(c))
  /\ [][\A c \in Callers :
          (cl[c].pc = "expired" /\ cl'[c].pc = "idle" /\ ~still_complete)
            => /\ cl'[c].result = "timeout"
               /\ ~still_requested'
               /\ ~still_complete']_vars

\* C3 witness: the first request timed out without its still frame ever
\* being pulled, and the following request succeeded on its own snapshot.
C3_Witness ==
  /\ outcome[1] = "timeout" /\ outcome[2] = "ok"
  /\ still_image = [origin |-> 2, req |-> 2]
  /\ \A f \in Filenames : files[f].origin # 1
  /\ ~still_requested

(***************************************************************************)
(* get_current_frame and wait_for_frame (lines 311-320), one reader r.     *)
(* rd[r].seen is the newest frame the reader has been handed so far,       *)
(* rd[r].prev what it was before the last call, rd[r].got the last result. *)
(***************************************************************************)
ReaderStep(r, rec) == rd' = [rd EXCEPT ![r] = rec]

\* the reader's record once a call of `op` has handed it `frame`
Handed(r, op, frame) ==
  [rd[r] EXCEPT !.pc = "idle", !.op = op, !.got = frame, !.prev = rd[r].seen,
                !.seen = IF frame = NoFrame THEN rd[r].seen ELSE frame.seq,
                !.start = 0]

\* `with self._frame_lock: return self._current_frame` (lines 313-314)
GetCurrentFrame(r) ==
  /\ rd[r].pc = "idle"
  /\ ReaderStep(r, [Handed(r, "get", current_frame) EXCEPT !.timed_out = FALSE])
  /\ UNCHANGED <<meter, session, engine, cache, loopctl, still, device, capture_count, th, cl, hist>>

\* wait_for_frame is called (line 316)
WaitCall(r) ==
  /\ rd[r].pc = "idle"
  /\ ReaderStep(r, [rd[r] EXCEPT !.pc = "ev_wait", !.op = "wait",
                                 !.start = set_count, !.timed_out = FALSE])
  /\ UNCHANGED <<meter, session, engine, cache, loopctl, still, device, capture_count, th, cl, hist>>

\* `self._frame_available.wait(timeout=timeout)` (line 318) is entered: it
\* returns at once when the flag is set, and blocks otherwise
WaitEnter(r) ==
  /\ rd[r].pc = "ev_wait"
  /\ ReaderStep(r, [rd[r] EXCEPT !.pc = IF frame_available THEN "clear"
                                                           ELSE "blocked"])
  /\ UNCHANGED <<meter, session, engine, cache, loopctl, still, device, capture_count, th, cl, hist>>

\* the timeout of wait() elapses without a notification
WaitExpires(r) ==
  /\ rd[r].pc = "blocked"
  /\ ReaderStep(r, [rd[r] EXCEPT !.pc = "clear", !.timed_out = TRUE])
  /\ UNCHANGED <<meter, session, engine, cache, loopctl, still, device, capture_count, th, cl, hist>>

\* `self._frame_available.clear()` (line 319)
WaitClear(r) ==
  /\ rd[r].pc = "clear"
  /\ frame_available' = FALSE
  /\ ReaderStep(r, [rd[r] EXCEPT !.pc = "get"])
  /\ UNCHANGED <<meter, session, engine, current_frame, loopctl, still, device, capture_count,
                 th, cl, hist>>

\* what wait_for_frame returns (line 320) when the cache holds `frame`
WaitResult(frame, timed_out) == frame

\* `return self.get_current_frame()` (line 320)
WaitGet(r) ==
  /\ rd[r].pc = "get"
  /\ ReaderStep(r, Handed(r, "wait", WaitResult(current_frame, rd[r].timed_out)))
  /\ UNCHANGED <<meter, session, engine, cache, loopctl, still, device, capture_count, th, cl, hist>>

WaitForFrame(r) ==
  \/ WaitCall(r) \/ WaitEnter(r) \/ WaitExpires(r) \/ WaitClear(r) \/ WaitGet(r)

(***************************************************************************)
(* SpecFrames: a running engine, its polling loop publishing preview       *)
(* frames, and two stream readers.                                         *)
(***************************************************************************)
InitFrames == InitOpened(CamA.id)

LoopFrames(t) ==
  \/ LoopWhile(t) \/ LoopPull(t) \/ LoopProcess(t) \/ LoopPublish(t)
  \/ LoopNotify(t) \/ LoopStillCheck(t)

NextFrames ==
  \/ LoopFrames(1)
  \/ \E r \in Readers : GetCurrentFrame(r) \/ WaitForFrame(r)

SpecFrames == InitFrames /\ [][NextFrames]_vars

(***************************************************************************)
(* Claims about the frame cache.                                           *)
(***************************************************************************)
\* C4: no reader misses a publish.  A reader that is blocked inside
\* wait_for_frame has not missed any _frame_available.set() since its call
\* began: every set() made after the call started has woken it.
C4_NoMissedPublish ==
  \A r \in Readers : rd[r].pc = "blocked" => set_count = rd[r].start

\* C5: wait_for_frame hands out a frame only if it is newer than the one
\* the same caller observed last; otherwise (timeout, or a signal left set
\* by an earlier publish) it hands out none.
C5_OnlyNewerFrames ==
  \A r \in Readers :
    rd[r].pc = "idle" /\ rd[r].op = "wait" =>
      rd[r].got = NoFrame \/ rd[r].got.seq > rd[r].prev

\* C6: the cache is a single-slot latest-wins holder.  It holds nothing or
\* the most recently published frame, and the frames one reader is handed
\* by get_current_frame / wait_for_frame never go back in publish order.
C6_LatestWins ==
  /\ current_frame = NoFrame \/ current_frame.seq = pub_count
  /\ \A r \in Readers :
       rd[r].pc = "idle" /\ rd[r].got # NoFrame => rd[r].got.seq >= rd[r].prev

\* C6 witness: a reader that had been handed frame 1 is handed frame 3,
\* frame 2 having been overwritten unread.
C6_Witness ==
  \E r \in Readers :
    /\ rd[r].pc = "idle" /\ rd[r].prev = 1
    /\ rd[r].got # NoFrame /\ rd[r].got.seq = 3
    /\ current_frame.seq = 3

(***************************************************************************)
(* close_camera (lines 169-185).  cl[c].then says where the caller goes    *)
(* on when close_camera returns: "return" (close_camera was the call),     *)
(* "enum" (open_camera line 100) or "fail" (open_camera line 166).         *)
(***************************************************************************)
\* line 171, `self._running = False`, on entry
CloseEnter(c, op, then) ==
  /\ running' = FALSE
  /\ CallerStep(c, [cl[c] EXCEPT !.pc = "k_join", !.op = op, !.result = "none",
                                 !.then = then])

CloseCall(c) ==
  /\ cl[c].pc = "idle"
  /\ CloseEnter(c, "close", "return")
  /\ UNCHANGED <<meter, session, engine, cache, poll_thread, still, device, capture_count, th, rd,
                 hist>>

\* a join without timeout: it returns only when the thread has ended
JoinWaits(t) == ~Alive(t)

\* whether `self._poll_thread.join(timeout=2.0)` can return now: the thread
\* has ended, or the 2 s have elapsed while it is still in an iteration
JoinReturns(t) == TRUE

\* a close_camera that keeps its reference to the joined thread
KeptThread(t) == t

\* the value close_camera leaves in _poll_thread after the bounded join
JoinedThread(t) == None

\* lines 173-175: `self._poll_thread.join(timeout=2.0)` returns, because the
\* thread has ended or because the 2 s have elapsed, and the reference is
\* dropped
CloseJoin(c) ==
  /\ cl[c].pc = "k_join"
  /\ poll_thread # None => JoinReturns(poll_thread)
  /\ poll_thread' = IF poll_thread # None THEN JoinedThread(poll_thread) ELSE None
  /\ CallerStep(c, [cl[c] EXCEPT !.pc = "k_close"])
  /\ UNCHANGED <<meter, session, engine, cache, running, still, device, capture_count, th, rd, hist>>

\* the device after Close() on handle h: the session and its queues are gone
DevClosed(h) ==
  /\ dev_open' = dev_open \ {h}
  /\ dev_started' = dev_started \ {h}
  /\ dev_snaps' = <<>>
  /\ dev_stills' = <<>>
  /\ dev_res' = 0
  /\ dev_cfg' = DeviceDefaults

\* a close_camera that calls Close() without testing the handle
HandleAssumed(h) == TRUE

\* line 177: `if self.hcam:`
HandleHeld(h) == h # None

\* lines 177-178: `if self.hcam: self.hcam.Close()`; Close() on None would
\* raise AttributeError out of close_camera
CloseDevice(c) ==
  /\ cl[c].pc = "k_close"
  /\ IF ~HandleHeld(hcam)
     THEN /\ CallerStep(c, [cl[c] EXCEPT !.pc = "k_none"])
          /\ UNCHANGED device
     ELSE IF hcam = None
     THEN /\ CallerStep(c, Return(c, cl[c].op, "error"))
          /\ UNCHANGED device
     ELSE /\ CallerStep(c, [cl[c] EXCEPT !.pc = "k_none"])
          /\ DevClosed(hcam)
  /\ UNCHANGED <<meter, session, engine, cache, loopctl, still, capture_count, th, rd, hist>>

\* lines 179-181: hcam, cur and pData are set to None
CloseRelease(c) ==
  /\ cl[c].pc = "k_none"
  /\ hcam' = None /\ cur' = None /\ pData' = None
  /\ CallerStep(c, [cl[c] EXCEPT !.pc = "k_clear"])
  /\ UNCHANGED <<meter, session, res, snap_res, img_width, img_height, wb, cache, loopctl, still,
                 device, capture_count, th, rd, hist>>

\* lines 182-185: the frame cache and the still image are emptied, and
\* close_camera returns
CloseClear(c) ==
  /\ cl[c].pc = "k_clear"
  /\ current_frame' = NoFrame
  /\ still_image' = NoStill
  /\ CallerStep(c, CASE cl[c].then = "return" -> Return(c, "close", "ok")
                     [] cl[c].then = "enum" -> [cl[c] EXCEPT !.pc = "o_enum"]
                     [] OTHER -> Return(c, "open", "failed"))
  /\ UNCHANGED <<meter, session, engine, frame_available, loopctl, still_requested,
                 still_complete, still_filename, device, capture_count, th, rd,
                 hist>>

CloseCamera(c) ==
  \/ CloseJoin(c) \/ CloseDevice(c) \/ CloseRelease(c) \/ CloseClear(c)

(***************************************************************************)
(* open_camera (lines 89-167).                                             *)
(***************************************************************************)
\* lines 99-100: an engine that holds a handle is closed first
OpenCall(c) ==
  /\ cl[c].pc = "idle"
  /\ IF hcam # None
     THEN CloseEnter(c, "open", "enum")
     ELSE /\ CallerStep(c, [cl[c] EXCEPT !.pc = "o_enum", !.op = "open",
                                         !.result = "none"])
          /\ UNCHANGED running
  /\ UNCHANGED <<meter, session, engine, cache, poll_thread, still, device, capture_count, th, rd,
                 hist>>

\* lines 113-120: the device selected from arr, None when camera_id is given
\* and no device has it
RECURSIVE FindCamera(_, _)
FindCamera(arr, camera_id) ==
  IF arr = <<>> THEN None
  ELSE IF Head(arr) = camera_id THEN Head(arr)
  ELSE FindCamera(Tail(arr), camera_id)

SelectCamera(arr, camera_id) ==
  IF camera_id # None THEN FindCamera(arr, camera_id) ELSE arr[1]

\* lines 106-120: enumerate and select; False when nothing is attached or
\* the requested id is not found
OpenEnumerate(c) ==
  /\ cl[c].pc = "o_enum"
  /\ \E arr \in EnumResults, camera_id \in CameraIdArgs :
       IF arr = <<>> \/ SelectCamera(arr, camera_id) = None
       THEN /\ CallerStep(c, Return(c, "open", "failed"))
            /\ UNCHANGED cur
       ELSE /\ cur' = SelectCamera(arr, camera_id)
            /\ CallerStep(c, [cl[c] EXCEPT !.pc = "o_open"])
  /\ UNCHANGED <<meter, session, hcam, res, snap_res, img_width, img_height, pData, wb, cache,
                 loopctl, still, device, capture_count, th, rd, hist>>

\* the handle Toupcam.Open returns: a fresh one, or None when the device
\* cannot be opened
FreeHandles == Handles \ dev_open
OpenOutcomes ==
  IF FreeHandles = {} THEN {None}
  ELSE {None, CHOOSE h \in FreeHandles : \A g \in FreeHandles : h <= g}

\* lines 125-128; a device that has just been opened is at mode 0
OpenDevice(c) ==
  /\ cl[c].pc = "o_open"
  /\ \E h \in OpenOutcomes :
       /\ hcam' = h
       /\ dev_res' = 0
       /\ dev_cfg' = DeviceDefaults
       /\ dev_open' = IF h = None THEN dev_open ELSE dev_open \cup {h}
       /\ CallerStep(c, IF h = None THEN Return(c, "open", "failed")
                                    ELSE [cl[c] EXCEPT !.pc = "o_setup"])
  /\ UNCHANGED <<meter, session, cur, res, snap_res, img_width, img_height, pData, wb, cache, loopctl,
                 still, dev_started, dev_snaps, dev_stills, capture_count, th,
                 rd, hist>>

\* an open_camera that starts at the first entry of the preview table
FirstRes(id) == 0

\* line 131: the streaming resolution index open_camera starts with
InitialRes(id) == Cam(id).preview - 1
\* lines 136-140: the capture resolution index open_camera starts with
InitialSnapRes(id) == 0

\* lines 131-146: resolution indices, image size and pixel buffer
\* (a descriptor set to None meanwhile makes line 130 raise AttributeError)
OpenSetup(c) ==
  /\ cl[c].pc = "o_setup"
  /\ IF cur = None
     THEN /\ CallerStep(c, Return(c, "open", "error"))
          /\ UNCHANGED <<res, img_width, img_height, snap_res, pData>>
     ELSE /\ res' = InitialRes(cur)
          /\ img_width' = Width(cur, InitialRes(cur))
          /\ img_height' = Height(cur, InitialRes(cur))
          /\ snap_res' = InitialSnapRes(cur)
          /\ pData' = BufSize(Width(cur, InitialRes(cur)),
                              Height(cur, InitialRes(cur)))
          /\ CallerStep(c, [cl[c] EXCEPT !.pc = "o_start"])
  /\ UNCHANGED <<meter, session, hcam, cur, wb, cache, loopctl, still, device, capture_count, th, rd,
                 hist>>

\* How lines 149-155 can end:
\*   "raise"   put_Option / put_eSize raise HRESULTException (outside the try)
\*   "refused" StartPullModeWithCallback or put_AutoExpoEnable raises: line 164
\*   "ok"      the pull-mode session is started
StartOutcomes == {"raise", "refused", "ok"}

\* the handle the engine holds is one the device has open
HandleLive == hcam # None /\ hcam \in dev_open

\* put_Option at line 148 raises on a handle that is None or closed
OpenStartOutcomes == IF HandleLive THEN StartOutcomes ELSE {"raise"}

\* lines 149-155, and on refusal line 166: close_camera() is entered
OpenStart(c) ==
  /\ cl[c].pc = "o_start"
  /\ \E o \in OpenStartOutcomes :
       CASE o = "ok" ->
              /\ dev_res' = res
              /\ dev_cfg' = [dev_cfg EXCEPT !.auto = 1]
              /\ dev_started' = dev_started \cup {hcam}
              /\ CallerStep(c, [cl[c] EXCEPT !.pc = "o_thread"])
              /\ UNCHANGED running
         [] o = "refused" ->
              /\ dev_res' = res
              /\ CloseEnter(c, "open", "fail")
              /\ UNCHANGED <<dev_started, dev_cfg>>
         [] OTHER ->
              /\ CallerStep(c, Return(c, "open", "error"))
              /\ UNCHANGED <<running, dev_started, dev_mode>>
  /\ UNCHANGED <<meter, session, engine, cache, poll_thread, still, dev_open, dev_snaps,
                 dev_stills, capture_count, th, rd, hist>>

\* a Thread object for a new polling thread: the first slot not in use
FreeThreads == {t \in Threads : ~Alive(t)}
NewThread == CHOOSE t \in FreeThreads : \A u \in FreeThreads : t <= u

\* the threads after threading.Thread(target=self._poll_frames).start():
\* the new thread is at the top of _poll_frames
\* (lines 190-191: last_fps_time = time.time(), frame_count_for_fps = 0)
Started(t) ==
  [th EXCEPT ![t] = IF metered
                    THEN [DeadThread EXCEPT !.pc = "while", !.last = now,
                                            !.mark = pub_count]
                    ELSE [DeadThread EXCEPT !.pc = "while"]]

\* lines 158-163: _running = True, the polling thread is created and
\* started, True is returned
OpenStartThread(c) ==
  /\ cl[c].pc = "o_thread"
  /\ FreeThreads # {}
  /\ running' = TRUE
  /\ poll_thread' = NewThread
  /\ th' = Started(NewThread)
  /\ CallerStep(c, Return(c, "open", "ok"))
  /\ UNCHANGED <<meter, session, engine, cache, still, device, capture_count, rd, hist>>

OpenCamera(c) ==
  \/ OpenCall(c) \/ OpenEnumerate(c) \/ OpenDevice(c) \/ OpenSetup(c)
  \/ OpenStart(c) \/ OpenStartThread(c)

(***************************************************************************)
(* set_resolution (lines 396-426).                                         *)
(***************************************************************************)
\* a validation that lets the index one past the table through
ResolutionRefusedPastEnd(index) ==
  hcam = None \/ index < 0 \/ index > Cam(cur).preview

\* line 398: the call is refused without a handle or with an index outside
\* the preview table
ResolutionRefused(index) ==
  hcam = None \/ index < 0 \/ index >= Cam(cur).preview

\* lines 398-402 for the argument `index`: validation, then
\* `was_running = self._running`
SetResolutionWith(c, index) ==
  /\ cl[c].pc = "idle"
  /\ hcam # None => cur # None
  /\ CallerStep(c, IF ResolutionRefused(index)
                   THEN Return(c, "set_resolution", "refused")
                   ELSE [cl[c] EXCEPT !.pc = "r_stop", !.op = "set_resolution",
                                      !.result = "none", !.index = index,
                                      !.was_running = running])
  /\ UNCHANGED <<meter, session, engine, cache, loopctl, still, device, capture_count, th, rd,
                 hist>>

SetResolutionCall(c) == \E index \in IndexArgs : SetResolutionWith(c, index)

\* line 403: `self._running = False`
SetResolutionStopLoop(c) ==
  /\ cl[c].pc = "r_stop"
  /\ running' = FALSE
  /\ CallerStep(c, [cl[c] EXCEPT !.pc = "r_join"])
  /\ UNCHANGED <<meter, session, engine, cache, poll_thread, still, device, capture_count, th, rd,
                 hist>>

\* lines 404-405: the bounded join; the reference is kept
SetResolutionJoin(c) ==
  /\ cl[c].pc = "r_join"
  /\ poll_thread # None => JoinReturns(poll_thread)
  /\ CallerStep(c, [cl[c] EXCEPT !.pc = "r_halt"])
  /\ UNCHANGED <<meter, session, engine, cache, loopctl, still, device, capture_count, th, rd,
                 hist>>

\* line 407: `self.hcam.Stop()` ends the pull-mode session.  A handle
\* released meanwhile makes the call raise (AttributeError).
SetResolutionHalt(c) ==
  /\ cl[c].pc = "r_halt"
  /\ IF hcam = None
     THEN /\ CallerStep(c, Return(c, "set_resolution", "error"))
          /\ UNCHANGED device
     ELSE /\ dev_started' = dev_started \ {hcam}
          /\ dev_snaps' = <<>>
          /\ dev_stills' = <<>>
          /\ CallerStep(c, [cl[c] EXCEPT !.pc = "r_size"])
          /\ UNCHANGED <<dev_open, dev_mode>>
  /\ UNCHANGED <<meter, session, engine, cache, loopctl, still, capture_count, th, rd, hist>>

\* what set_resolution does to the frame cache when the resolution changes
RetiredFrame(frame) == frame

\* a set_resolution that keeps a pixel buffer that is large enough
BufferKeptIfLarger(old, w, h) ==
  IF old # None /\ old >= BufSize(w, h) THEN old ELSE BufSize(w, h)

\* line 411: the pixel buffer set_resolution allocates for a w x h mode,
\* whatever buffer was held
NewBuffer(old, w, h) == BufSize(w, h)

\* lines 408-411: res, img_width, img_height and pData for the new index
SetResolutionResize(c) ==
  /\ cl[c].pc = "r_size"
  /\ IF cur = None
     THEN /\ CallerStep(c, Return(c, "set_resolution", "error"))
          /\ UNCHANGED <<res, img_width, img_height, pData, current_frame>>
     ELSE /\ res' = cl[c].index
          /\ img_width' = Width(cur, cl[c].index)
          /\ img_height' = Height(cur, cl[c].index)
          /\ pData' = NewBuffer(pData, Width(cur, cl[c].index),
                                        Height(cur, cl[c].index))
          /\ current_frame' = RetiredFrame(current_frame)
          /\ CallerStep(c, [cl[c] EXCEPT !.pc = "r_start"])
  /\ UNCHANGED <<meter, session, hcam, cur, snap_res, wb, frame_available, loopctl, still, device,
                 capture_count, th, rd, hist>>

\* a set_resolution that starts the loop whatever it found
RestartAlways(was_running) == TRUE

\* line 419, `if was_running:`: whether the polling loop is started again
RestartLoop(was_running) == was_running

\* How lines 415-417 can end:
\*   "raise"   put_eSize raises HRESULTException (outside the try): the
\*             device keeps the mode it had
\*   "refused" StartPullModeWithCallback raises: line 425, False
\*   "ok"      the pull-mode session is started again
\* lines 415-424: on success the loop is restarted if it was running
SetResolutionStart(c) ==
  /\ cl[c].pc = "r_start"
  /\ \E o \in StartOutcomes :
       CASE o = "ok" /\ hcam # None ->
              /\ dev_res' = res
              /\ UNCHANGED dev_cfg
              /\ dev_started' = dev_started \cup {hcam}
              /\ IF RestartLoop(cl[c].was_running)
                 THEN /\ FreeThreads # {}
                      /\ running' = TRUE
                      /\ poll_thread' = NewThread
                      /\ th' = Started(NewThread)
                 ELSE UNCHANGED <<loopctl, th>>
              /\ CallerStep(c, Return(c, "set_resolution", "ok"))
         [] o = "refused" /\ hcam # None ->
              /\ dev_res' = res
              /\ UNCHANGED dev_cfg
              /\ CallerStep(c, Return(c, "set_resolution", "failed"))
              /\ UNCHANGED <<loopctl, th, dev_started>>
         [] OTHER ->
              /\ CallerStep(c, Return(c, "set_resolution", "error"))
              /\ UNCHANGED <<loopctl, th, dev_started, dev_mode>>
  /\ UNCHANGED <<meter, session, engine, cache, still, dev_open, dev_snaps, dev_stills,
                 capture_count, rd, hist>>

SetResolution(c) ==
  \/ SetResolutionCall(c) \/ SetResolutionStopLoop(c) \/ SetResolutionJoin(c)
  \/ SetResolutionHalt(c) \/ SetResolutionResize(c) \/ SetResolutionStart(c)

(***************************************************************************)
(* The engine's life cycle: one service thread opens, closes and switches  *)
(* resolution (main.py calls the manager from the event loop), the polling *)
(* threads it starts run concurrently.                                     *)
(***************************************************************************)
LoopLife(t) ==
  \/ LoopWhile(t) \/ LoopPull(t) \/ LoopProcess(t) \/ LoopPublish(t)
  \/ LoopNotify(t) \/ LoopStillCheck(t) \/ LoopExcept(t)

Next ==
  \/ \E t \in Threads : LoopLife(t)
  \/ CloseCall("c1")
  \/ CloseCamera("c1")
  \/ OpenCamera("c1")
  \/ SetResolution("c1")

Spec == Init /\ [][Next]_vars

(***************************************************************************)
(* Claims about the life cycle.                                            *)
(***************************************************************************)
\* C7: the frame in the cache was encoded at the resolution the engine
\* currently reports (img_width x img_height); a resolution switch leaves
\* no frame of the retired resolution behind for readers.
C7_CacheAtCurrentResolution ==
  current_frame # NoFrame => current_frame.res = <<img_width, img_height>>

\* a polling thread that is at its device pull (line 196)
Pulling(t) == th[t].pc = "pull"

\* C8: at most one polling loop is alive and pulling from the device at any
\* time, also when the bounded join of the old loop timed out before the
\* new loop was started.
C8_SingleLoop == Cardinality({t \in Threads : Pulling(t)}) <= 1

\* open_camera has just returned `result` to caller c
OpenReturned(c, result) ==
  cl[c].pc = "idle" /\ cl[c].op = "open" /\ cl[c].result = result

Area(id, i) == Width(id, i) * Height(id, i)
\* the index of the lowest-resolution preview mode of device id
LowestPreview(id) ==
  CHOOSE i \in 0..(Cam(id).preview - 1) :
    \A j \in 0..(Cam(id).preview - 1) : Area(id, i) <= Area(id, j)
\* the number of modes a still capture can use (lines 433-441): the
\* dedicated still modes, or the preview modes when there are none
StillModes(id) == IF Cam(id).still = 0 THEN Cam(id).preview ELSE Cam(id).still
\* the index of the highest-resolution still mode of device id
HighestStill(id) ==
  CHOOSE i \in 0..(StillModes(id) - 1) :
    \A j \in 0..(StillModes(id) - 1) : Area(id, i) >= Area(id, j)

\* C10: after a successful open_camera the preview mode is the
\* lowest-resolution preview mode of the device's table, the still mode is
\* the highest-resolution still mode, and the pixel buffer has the size of
\* the preview mode.
C10_OpenDefaults ==
  \A c \in Callers : OpenReturned(c, "ok") =>
    /\ cur # None
    /\ res = LowestPreview(cur)
    /\ img_width = Width(cur, LowestPreview(cur))
    /\ img_height = Height(cur, LowestPreview(cur))
    /\ snap_res = HighestStill(cur)
    /\ pData = BufSize(img_width, img_height)

\* the device with preview modes [(1920,1080),(640,480)] opened: the
\* preview is 640 x 480
C10_Witness ==
  /\ OpenReturned("c1", "ok")
  /\ cur = CamA.id
  /\ Cam(cur).res = << <<1920, 1080>>, <<640, 480>> >>
  /\ <<img_width, img_height>> = <<640, 480>>
  /\ pData = 1920 * 480

(***************************************************************************)
(* Claims about close_camera.                                              *)
(***************************************************************************)
\* the engine holds no session: what close_camera leaves in its own fields
\* and on the device
Closed ==
  /\ hcam = None /\ cur = None /\ pData = None
  /\ ~running /\ poll_thread = None /\ ~is_open
  /\ dev_open = {} /\ dev_started = {}

\* caller c is inside close_camera, called as such
Closing(c) == cl[c].op = "close" /\ cl[c].pc # "idle"

\* C11: close_camera is idempotent.  It never raises and leaves the engine
\* closed; called on an engine that is closed already (never opened, or
\* closed before) none of its own steps changes the engine's fields or the
\* device, and it returns with the cache and the still image empty, the
\* state one call leaves.
C11_CloseIdempotent ==
  /\ [](\A c \in Callers :
          cl[c].pc = "idle" /\ cl[c].op = "close" => cl[c].result = "ok" /\ Closed)
  /\ [][\A c \in Callers :
          (Closed /\ cl'[c] # cl[c]
                  /\ (Closing(c) \/ (cl[c].pc = "idle" /\ Closing(c)')))
            => /\ Closed'
               /\ UNCHANGED <<res, snap_res, img_width, img_height, capture_count,
                              frame_available, still_requested, still_complete,
                              still_filename, device>>
               /\ (cl'[c].pc = "idle" =>
                     /\ cl'[c].result = "ok"
                     /\ current_frame' = NoFrame /\ still_image' = NoStill)]_vars

\* close_camera is at its device step on an engine that is closed already
\* and had been streaming before: the second close in a row
C11_Witness ==
  /\ Closing("c1") /\ cl["c1"].pc = "k_close"
  /\ Closed
  /\ pub_count > 0

\* C12: after close_camera has returned (and before anything else is
\* called) the frame cache is empty: no frame of the closed session is
\* published into it afterwards, also when the loop had not exited at the
\* end of the bounded join.
C12_CacheEmptyAfterClose ==
  \A c \in Callers :
    cl[c].pc = "idle" /\ cl[c].op = "close" => current_frame = NoFrame

(***************************************************************************)
(* A still capture and a close_camera from two service threads (the HTTP   *)
(* handlers of main.py and the serial session of thread.py share one      *)
(* manager), on an engine opened on the camera with still modes.           *)
(***************************************************************************)
NextCaptureClose ==
  \/ PollFrames(1)
  \/ DeviceStillReady
  \/ DeviceStillLost
  \/ CaptureStillImage("c1")
  \/ CloseCall("c2")
  \/ CloseCamera("c2")

SpecCaptureClose == InitCapture /\ [][NextCaptureClose]_vars

\* C13: close_camera clears the pending still-capture state: when it has
\* returned no still request is pending, the completion signal is reset and
\* no destination is recorded.
C13_CloseClearsStill ==
  \A c \in Callers :
    cl[c].pc = "idle" /\ cl[c].op = "close" =>
      ~still_requested /\ ~still_complete /\ still_filename = NoFile

\* C16: failures inside an iteration never end the loop.  A polling thread
\* that is alive always has a next step (it is never stuck), and it ends
\* only when a stop was requested (_running false) or the session was
\* closed (hcam None).
C16_LoopSurvivesFailures ==
  /\ [](\A t \in Threads : Alive(t) => ENABLED PollFrames(t))
  /\ [][\A t \in Threads :
          Alive(t) /\ ~Alive(t)' => ~running \/ hcam = None]_vars

\* the preview pull has failed on a running engine with an open session,
\* and the thread goes on, in its handler, to the pending still request
C16_Witness ==
  /\ th[1].pc = "still_chk" /\ th[1].handler
  /\ running /\ hcam # None /\ hcam \in dev_started
  /\ still_requested

\* C17: in an iteration in which a still capture is requested the loop
\* attempts the still peek however the preview pull ended: the pull never
\* ends in the handler that has no still check (line 219) while a still is
\* requested; and a peek that finds no still ready changes no still state.
C17_StillAttemptedEveryIteration ==
  /\ [][\A t \in Threads :
          th[t].pc = "pull" /\ th'[t].pc = "except" => ~still_requested]_vars
  /\ [][\A t \in Threads :
          th[t].pc = "peek" /\ th'[t].pc \notin {"peek", "save"}
            => UNCHANGED <<still, dev_stills, files, capture_count>>]_vars

(***************************************************************************)
(* Opening and closing with a caller that keeps running: a thread inside   *)
(* close_camera is scheduled again and again.  Nothing is assumed about    *)
(* the polling threads, which may be stuck for ever.                       *)
(***************************************************************************)
NextOpenClose ==
  \/ \E t \in Threads : LoopLife(t)
  \/ CloseCall("c1")
  \/ CloseCamera("c1")
  \/ OpenCamera("c1")

SpecCloseLive ==
  Init /\ [][NextOpenClose]_vars /\ WF_vars(CloseCamera("c1"))

\* C14: close_camera always terminates and completes the teardown: whether
\* or not the loop ended within the bounded join, the call returns with the
\* device session closed, the pixel buffer released and is_open false.
C14_CloseTerminates ==
  \A c \in Callers :
    Closing(c) ~> (cl[c].pc = "idle" /\ cl[c].result = "ok" /\ Closed)

\* close_camera has returned while the polling thread it joined is still
\* in its iteration
C14_Witness ==
  /\ cl["c1"].pc = "idle" /\ cl["c1"].op = "close" /\ cl["c1"].result = "ok"
  /\ Closed
  /\ \E t \in Threads : th[t].pc \in {"pull", "process", "publish"}

(***************************************************************************)
(* Stopping and restarting the loop of an open engine.  Every polling      *)
(* thread keeps being scheduled (the threads are daemon threads of one     *)
(* process, and every step of an iteration is bounded: the pull waits at   *)
(* most 50 ms).  Nothing is assumed about when the caller calls.           *)
(***************************************************************************)
NextRestart ==
  \/ \E t \in Threads : LoopLife(t)
  \/ SetResolution("c1")
  \/ CloseCall("c1")
  \/ CloseCamera("c1")

SpecRestart ==
  /\ InitFrames
  /\ [][NextRestart]_vars
  /\ \A t \in Threads : WF_vars(LoopLife(t))

\* C15: once a stop is signalled (_running false) every polling thread
\* that is alive at that moment eventually exits, also when the device
\* delivers no frame and when the loop is restarted afterwards.
C15_StoppedLoopExits ==
  \A t \in Threads : (Alive(t) /\ ~running) ~> ~Alive(t)

(***************************************************************************)
(* The still capture of SpecCapture with threads that keep running: the    *)
(* polling thread is scheduled again and again (each of its steps is       *)
(* bounded), and so is a caller whose wait() has returned True.  Nothing   *)
(* is assumed about when the device has a still ready or about when the    *)
(* 10 s of the wait elapse.                                                *)
(***************************************************************************)
SpecCaptureFair ==
  /\ InitCapture
  /\ [][NextCapture]_vars
  /\ WF_vars(LoopCapture(1))
  /\ WF_vars(CaptureSuccess("c1"))

\* C18: a pending still request does not stall the preview pipeline.  While
\* a caller is blocked in capture_still_image the polling thread always has
\* a next step, gets back to the preview pull, and a still peek that finds
\* nothing ready goes straight on to the next iteration.
C18_StillDoesNotStallPreview ==
  /\ \A c \in Callers : cl[c].pc = "blocked" ~> th[1].pc = "pull"
  /\ [](\A c \in Callers : cl[c].pc = "blocked" => ENABLED LoopCapture(1))
  /\ [][(th[1].pc = "peek" /\ th'[1] # th[1] /\ dev_stills = <<>>)
          => th'[1].pc = "while" /\ UNCHANGED <<cl, cache, pubs>>]_vars

\* the caller is blocked on a still that is not ready, and two preview
\* frames have been published and signalled since it made its request
C18_Witness ==
  /\ cl["c1"].pc = "blocked" /\ still_requested
  /\ dev_stills = <<>>
  /\ pub_count >= cl["c1"].pub0 + 2
  /\ current_frame.seq = pub_count /\ frame_available

\* C19: a pending request whose still the device makes ready is resolved.
\* A caller blocked on its request with a still ready on the device is
\* released with success, unless its deadline passes first; a released
\* caller returns success, capture_count goes up by exactly one, and the
\* request is no longer pending.
C19_ReadyStillResolves ==
  /\ \A c \in Callers :
       (cl[c].pc = "blocked" /\ dev_stills # <<>>)
         ~> (cl[c].pc = "expired" \/ (cl[c].pc = "idle" /\ cl[c].result = "ok"))
  /\ [][\A c \in Callers :
          (cl[c].pc = "woken" /\ cl'[c].pc = "idle")
            => /\ cl'[c].result = "ok"
               /\ capture_count' = capture_count + 1
               /\ ~still_requested' /\ still_complete']_vars
  /\ [][capture_count' # capture_count
          => \E c \in Callers : cl[c].pc = "woken" /\ cl'[c].pc = "idle"]_vars

\* C20: when the Snap trigger fails capture_still_image reports the
\* failure at once: the request is withdrawn, capture_count is unchanged,
\* and the loop pulls no still for that request.
C20_SnapFailureWithdraws ==
  /\ [][\A c \in Callers :
          (cl[c].pc = "snap" /\ cl'[c].result = "snap_failed")
            => ~still_requested' /\ capture_count' = capture_count]_vars
  /\ [](\A c \in Callers :
          cl[c].pc = "idle" /\ cl[c].result = "snap_failed"
            => /\ still_image.req # cl[c].req
               /\ \A f \in Filenames : files[f].req # cl[c].req)

(***************************************************************************)
(* Captures on a device without dedicated still modes: a running engine on *)
(* such a camera, its polling loop publishing preview frames, and one      *)
(* caller of capture_still_image.                                          *)
(***************************************************************************)
NextSoftCapture ==
  \/ LoopFrames(1)
  \/ CaptureCall("c1")

SpecSoftCapture == InitFrames /\ [][NextSoftCapture]_vars

\* C21: on a device that advertises no dedicated still resolution
\* capture_still_image resolves at once from the frame cache.  The
\* still-requested flag is never set, no Snap trigger is issued, the
\* completion signal is never waited on (the caller is never inside the
\* call between two steps), and the call stores the cached frame and
\* counts it, or fails at once when the cache is empty.
C21_SoftwareStillImmediate ==
  /\ [](/\ ~still_requested /\ still_filename = NoFile
        /\ dev_snaps = <<>> /\ dev_stills = <<>>
        /\ \A c \in Callers : cl[c].pc = "idle")
  /\ [][\A c \in Callers :
          cl'[c] # cl[c] =>
            IF current_frame = NoFrame
            THEN /\ cl'[c].result = "no_frame"
                 /\ UNCHANGED <<files, capture_count, cache, still>>
            ELSE /\ cl'[c].result = "ok"
                 /\ files'[cl'[c].file].origin = -current_frame.seq
                 /\ capture_count' = capture_count + 1
                 /\ UNCHANGED <<cache, still>>]_vars

\* a capture on the empty cache has failed and the next one has stored
\* the second preview frame
C21_Witness ==
  /\ outcome[1] = "no_frame" /\ outcome[2] = "ok"
  /\ cl["c1"].result = "ok" /\ files[cl["c1"].file].origin = -2
  /\ capture_count = 1 /\ ~still_requested

(***************************************************************************)
(* Claims about set_resolution.                                            *)
(***************************************************************************)
\* `index` is no index of the preview table of the selected device
OutsideTable(index) == index < 0 \/ index >= Cam(cur).preview

\* C22: set_resolution with an index outside the preview table returns
\* False at line 399 and changes nothing: neither the engine's fields (res,
\* img_width, img_height, pData), nor the device session, the loop flag,
\* the polling threads or the cache.
C22_InvalidIndexRefused ==
  [][\A c \in Callers : \A index \in IndexArgs :
       (hcam # None /\ OutsideTable(index) /\ SetResolutionWith(c, index))
         => /\ cl'[c].pc = "idle" /\ cl'[c].result = "refused"
            /\ UNCHANGED <<engine, device, loopctl, th, cache, still,
                           capture_count>>]_vars

\* a call was refused on the running device with two preview modes, which
\* line 398 does for an index outside the table only
C22_Witness ==
  /\ cl["c1"].pc = "idle" /\ cl["c1"].op = "set_resolution"
  /\ cl["c1"].result = "refused"
  /\ cur = CamA.id /\ Cam(cur).preview = 2 /\ OutsideTable(2)
  /\ is_open /\ pub_count > 0

\* set_resolution has just returned `result` to caller c
SetResolutionReturned(c, result) ==
  cl[c].pc = "idle" /\ cl[c].op = "set_resolution" /\ cl[c].result = result

C24_FailedChangeConsistent ==
  \A c \in Callers :
    (SetResolutionReturned(c, "failed") \/ SetResolutionReturned(c, "error"))
      /\ hcam # None /\ cur # None
    => /\ res = dev_res
       /\ hcam \in dev_started
       /\ <<img_width, img_height>> = <<Width(cur, dev_res), Height(cur, dev_res)>>
       /\ pData = BufSize(Width(cur, dev_res), Height(cur, dev_res))

\* C25: after a successful set_resolution the engine's res is the index
\* asked for, img_width x img_height is that entry of the device's table
\* and the pixel buffer has exactly that mode's size, whatever modes were
\* selected before: switching from A to B and back to A gives A's buffer
\* size again.
C25_BufferMatchesIndex ==
  /\ [][\A c \in Callers :
          (cl[c].pc = "r_start" /\ SetResolutionReturned(c, "ok")')
            => res' = cl[c].index]_vars
  /\ [](\A c \in Callers : SetResolutionReturned(c, "ok") =>
          /\ img_width = Cam(cur).res[res + 1][1]
          /\ img_height = Cam(cur).res[res + 1][2]
          /\ pData = ((img_width * 24 + 31) \div 32) * 4 * img_height)

\* the engine is back at 640 x 480 (index 1, 921600 bytes) after a switch
\* to 1920 x 1080, of which the cache still holds a frame
C25_Witness ==
  /\ SetResolutionReturned("c1", "ok")
  /\ res = 1 /\ <<img_width, img_height>> = <<640, 480>>
  /\ pData = 921600
  /\ current_frame.res = <<1920, 1080>>

\* C26: a successful set_resolution follows stop - reconfigure - restart
\* and restarts the polling loop exactly when the loop flag was up as the
\* call began.  was_running is the flag at the call; when the call returns
\* True the loop had been stopped and the pull session halted before it was
\* resumed, and then the engine is running again (is_open, a new polling
\* thread at the top of its loop) if was_running, and is left without a
\* running loop otherwise.
C26_RestartIffWasRunning ==
  /\ [][\A c \in Callers :
          (cl[c].pc = "idle" /\ cl'[c].pc = "r_stop")
            => cl'[c].was_running = running]_vars
  /\ [][\A c \in Callers :
          (cl[c].pc = "r_start" /\ SetResolutionReturned(c, "ok")')
            => /\ ~running /\ hcam \notin dev_started
               /\ hcam \in dev_started' /\ dev_res' = res
               /\ running' = cl[c].was_running
               /\ is_open' = cl[c].was_running
               /\ IF cl[c].was_running
                  THEN /\ poll_thread' # None
                       /\ ~Alive(poll_thread')
                       /\ th'[poll_thread'].pc = "while"
                       /\ \A t \in Threads \ {poll_thread'} : th'[t] = th[t]
                  ELSE UNCHANGED <<loopctl, th>>]_vars

\* a resolution change succeeded on an engine whose loop was not running (an
\* earlier change had failed): the session is resumed, the loop is not
C26_Witness ==
  /\ SetResolutionReturned("c1", "ok")
  /\ hcam # None /\ hcam \in dev_started
  /\ ~running /\ ~is_open
  /\ pub_count > 0

(***************************************************************************)
(* set_capture_resolution (lines 428-444).                                 *)
(***************************************************************************)
\* a validation against the dedicated still modes only
StillModesDedicated(id) == Cam(id).still

\* lines 433-441: the number of modes the index is validated against
CaptureModes(id) == IF Cam(id).still = 0 THEN Cam(id).preview ELSE Cam(id).still

SetCaptureResolutionWith(c, index) ==
  /\ cl[c].pc = "idle"
  /\ IF cur # None /\ index >= 0 /\ index < CaptureModes(cur)
     THEN /\ snap_res' = index
          /\ CallerStep(c, Return(c, "set_capture_resolution", "ok"))
     ELSE /\ CallerStep(c, Return(c, "set_capture_resolution", "refused"))
          /\ UNCHANGED snap_res
  /\ UNCHANGED <<meter, session, hcam, cur, res, img_width, img_height, pData, wb, cache, loopctl,
                 still, device, capture_count, th, rd, hist>>

SetCaptureResolution(c) ==
  \E index \in IndexArgs : SetCaptureResolutionWith(c, index)

(***************************************************************************)
(* The exposure, gain and white balance accessors (lines 446-539) and      *)
(* get_camera_info (lines 541-569).  Each is one call of the caller; the   *)
(* polling loop touches none of these settings.                            *)
(***************************************************************************)
\* the arguments the callers pass
ExposureArgs == {1000}
GainArgs == {200}
WhiteBalanceArgs == { <<None, None>>, <<5000, 1200>> }
\* the white balance AwbOnce settles on
AwbResult == <<4800, 1100>>

\* how a call into an open device can end: "ok", or "hresult" (it raises
\* HRESULTException)
DeviceOutcomes == {"ok", "hresult"}

\* an accessor that takes the handle for granted
HandleTaken == FALSE

\* `if not self.hcam:`, the first statement of every accessor
NotConnected == hcam = None

\* the caller's step of an accessor `op` that returns `result`
Accessor(c, op, result) ==
  /\ cl[c].pc = "idle"
  /\ CallerStep(c, Return(c, op, result))

\* a device call on a handle that is None (AttributeError) or closed
\* (HRESULTException) cannot succeed
CallOutcomes ==
  IF hcam = None THEN {"attr"}
  ELSE IF hcam \notin dev_open THEN {"hresult"}
  ELSE DeviceOutcomes

\* lines 446-453: no try around the two device reads
GetExposureRange(c) ==
  /\ IF NotConnected
     THEN Accessor(c, "get_exposure_range", "defaults")
     ELSE \E o \in CallOutcomes :
            Accessor(c, "get_exposure_range",
                     IF o = "ok" THEN "values" ELSE "error")
  /\ UNCHANGED <<meter, session, engine, cache, loopctl, still, device, capture_count, th, rd,
                 hist>>

\* lines 455-464: put_AutoExpoEnable(0), then put_ExpoTime(time_us); o2 is
\* the outcome of the second call when the first went through
SetExposure(c) ==
  /\ IF NotConnected
     THEN /\ Accessor(c, "set_exposure", "not_connected")
          /\ UNCHANGED dev_cfg
     ELSE \E time_us \in ExposureArgs, o \in CallOutcomes, o2 \in DeviceOutcomes :
            CASE o = "attr" ->
                   /\ Accessor(c, "set_exposure", "error")
                   /\ UNCHANGED dev_cfg
              [] o = "hresult" ->
                   /\ Accessor(c, "set_exposure", "failed")
                   /\ UNCHANGED dev_cfg
              [] OTHER ->
                   /\ Accessor(c, "set_exposure",
                               IF o2 = "ok" THEN "ok" ELSE "failed")
                   /\ dev_cfg' = IF o2 = "ok"
                                 THEN [dev_cfg EXCEPT !.auto = 0, !.expo = time_us]
                                 ELSE [dev_cfg EXCEPT !.auto = 0]
  /\ UNCHANGED <<meter, session, engine, cache, loopctl, still, dev_open, dev_started, dev_snaps,
                 dev_stills, dev_res, capture_count, th, rd, hist>>

\* lines 466-476: a refused read is answered with a fallback range
GetGainRange(c) ==
  /\ IF NotConnected
     THEN Accessor(c, "get_gain_range", "defaults")
     ELSE \E o \in CallOutcomes :
            Accessor(c, "get_gain_range",
                     CASE o = "ok" -> "values"
                       [] o = "hresult" -> "fallback"
                       [] OTHER -> "error")
  /\ UNCHANGED <<meter, session, engine, cache, loopctl, still, device, capture_count, th, rd,
                 hist>>

\* lines 478-487
SetGain(c) ==
  /\ IF NotConnected
     THEN /\ Accessor(c, "set_gain", "not_connected")
          /\ UNCHANGED dev_cfg
     ELSE \E percent \in GainArgs, o \in CallOutcomes, o2 \in DeviceOutcomes :
            CASE o = "attr" ->
                   /\ Accessor(c, "set_gain", "error")
                   /\ UNCHANGED dev_cfg
              [] o = "hresult" ->
                   /\ Accessor(c, "set_gain", "failed")
                   /\ UNCHANGED dev_cfg
              [] OTHER ->
                   /\ Accessor(c, "set_gain", IF o2 = "ok" THEN "ok" ELSE "failed")
                   /\ dev_cfg' = IF o2 = "ok"
                                 THEN [dev_cfg EXCEPT !.auto = 0, !.gain = percent]
                                 ELSE [dev_cfg EXCEPT !.auto = 0]
  /\ UNCHANGED <<meter, session, engine, cache, loopctl, still, dev_open, dev_started, dev_snaps,
                 dev_stills, dev_res, capture_count, th, rd, hist>>

\* lines 489-493: no try around the device read
GetAutoExposure(c) ==
  /\ IF NotConnected
     THEN Accessor(c, "get_auto_exposure", "not_connected")
     ELSE \E o \in CallOutcomes :
            Accessor(c, "get_auto_exposure",
                     IF o = "ok" THEN "values" ELSE "error")
  /\ UNCHANGED <<meter, session, engine, cache, loopctl, still, device, capture_count, th, rd,
                 hist>>

\* lines 495-503
SetAutoExposure(c) ==
  /\ IF NotConnected
     THEN /\ Accessor(c, "set_auto_exposure", "not_connected")
          /\ UNCHANGED dev_cfg
     ELSE \E enabled \in BOOLEAN, o \in CallOutcomes :
            /\ Accessor(c, "set_auto_exposure",
                        CASE o = "ok" -> "ok"
                          [] o = "hresult" -> "failed"
                          [] OTHER -> "error")
            /\ dev_cfg' = IF o = "ok"
                          THEN [dev_cfg EXCEPT !.auto = IF enabled THEN 1 ELSE 0]
                          ELSE dev_cfg
  /\ UNCHANGED <<meter, session, engine, cache, loopctl, still, dev_open, dev_started, dev_snaps,
                 dev_stills, dev_res, capture_count, th, rd, hist>>

\* lines 505-513: with a handle, temp and tint are read back from the
\* device; a failing read is swallowed by the bare except
GetWhiteBalance(c) ==
  /\ IF NotConnected
     THEN /\ Accessor(c, "get_white_balance", "defaults")
          /\ UNCHANGED wb
     ELSE \E o \in CallOutcomes :
            /\ Accessor(c, "get_white_balance", "values")
            /\ temp' = IF o = "ok" THEN dev_cfg.wb[1] ELSE temp
            /\ tint' = IF o = "ok" THEN dev_cfg.wb[2] ELSE tint
  /\ UNCHANGED <<meter, session, hcam, cur, res, snap_res, img_width, img_height, pData, cache,
                 loopctl, still, device, capture_count, th, rd, hist>>

\* lines 515-529: temp and tint are recorded before the device is written
SetWhiteBalance(c) ==
  /\ IF NotConnected
     THEN /\ Accessor(c, "set_white_balance", "not_connected")
          /\ UNCHANGED <<wb, dev_cfg>>
     ELSE \E arg \in WhiteBalanceArgs, o \in CallOutcomes :
            /\ temp' = IF arg[1] # None THEN arg[1] ELSE temp
            /\ tint' = IF arg[2] # None THEN arg[2] ELSE tint
            /\ Accessor(c, "set_white_balance",
                        CASE o = "ok" -> "ok"
                          [] o = "hresult" -> "failed"
                          [] OTHER -> "error")
            /\ dev_cfg' = IF o = "ok" THEN [dev_cfg EXCEPT !.wb = <<temp', tint'>>]
                                      ELSE dev_cfg
  /\ UNCHANGED <<meter, session, hcam, cur, res, snap_res, img_width, img_height, pData, cache,
                 loopctl, still, dev_open, dev_started, dev_snaps, dev_stills,
                 dev_res, capture_count, th, rd, hist>>

\* lines 531-539
AutoWhiteBalance(c) ==
  /\ IF NotConnected
     THEN /\ Accessor(c, "auto_white_balance", "not_connected")
          /\ UNCHANGED dev_cfg
     ELSE \E o \in CallOutcomes :
            /\ Accessor(c, "auto_white_balance",
                        CASE o = "ok" -> "ok"
                          [] o = "hresult" -> "failed"
                          [] OTHER -> "error")
            /\ dev_cfg' = IF o = "ok" THEN [dev_cfg EXCEPT !.wb = AwbResult]
                                      ELSE dev_cfg
  /\ UNCHANGED <<meter, session, engine, cache, loopctl, still, dev_open, dev_started, dev_snaps,
                 dev_stills, dev_res, capture_count, th, rd, hist>>

\* lines 541-569.  Without a descriptor the answer is {"connected": False}
\* ("disconnected").  With one, the full dictionary is built: its
\* "connected" entry is is_open, and it calls get_exposure_range,
\* get_gain_range, get_auto_exposure and get_white_balance; with a handle,
\* the reads of the first and the third are not guarded (o1, o3: they raise
\* out of get_camera_info), and the white balance is read back (o4).
GetCameraInfo(c) ==
  /\ IF cur = None
     THEN /\ Accessor(c, "get_camera_info", "disconnected")
          /\ UNCHANGED wb
     ELSE IF NotConnected
     THEN /\ Accessor(c, "get_camera_info",
                      IF CameraInfoConnected THEN "connected" ELSE "disconnected")
          /\ UNCHANGED wb
     ELSE \E o1 \in CallOutcomes, o3 \in CallOutcomes, o4 \in CallOutcomes :
            /\ Accessor(c, "get_camera_info",
                        IF o1 # "ok" \/ o3 # "ok" THEN "error"
                        ELSE IF CameraInfoConnected THEN "connected"
                        ELSE "disconnected")
            /\ temp' = IF o1 = "ok" /\ o3 = "ok" /\ o4 = "ok" THEN dev_cfg.wb[1]
                                                              ELSE temp
            /\ tint' = IF o1 = "ok" /\ o3 = "ok" /\ o4 = "ok" THEN dev_cfg.wb[2]
                                                              ELSE tint
  /\ UNCHANGED <<meter, session, hcam, cur, res, snap_res, img_width, img_height, pData, cache,
                 loopctl, still, device, capture_count, th, rd, hist>>

Accessors(c) ==
  \/ GetExposureRange(c) \/ SetExposure(c) \/ GetGainRange(c) \/ SetGain(c)
  \/ GetAutoExposure(c) \/ SetAutoExposure(c) \/ GetWhiteBalance(c)
  \/ SetWhiteBalance(c) \/ AutoWhiteBalance(c) \/ GetCameraInfo(c)

(***************************************************************************)
(* A caller that queries and configures the engine between its open_camera *)
(* and close_camera calls.  The accessors do not look at the frame cache:  *)
(* in these runs the device delivers no preview frame, each pull of the    *)
(* polling loop times out.                                                 *)
(***************************************************************************)
LoopQuiet(t) ==
  /\ LoopWhile(t) \/ LoopPull(t) \/ LoopStillCheck(t) \/ LoopExcept(t)
  /\ th'[t].pc # "process"

NextConfig ==
  \/ \E t \in Threads : LoopQuiet(t)
  \/ CloseCall("c1")
  \/ CloseCamera("c1")
  \/ OpenCamera("c1")
  \/ Accessors("c1")

SpecConfig == Init /\ [][NextConfig]_vars

\* the accessors that answer a missing handle with False
SetterOps ==
  {"set_exposure", "set_gain", "set_auto_exposure", "set_white_balance",
   "auto_white_balance", "get_auto_exposure"}
\* the accessors that answer a missing handle with a default dictionary
GetterOps == {"get_exposure_range", "get_gain_range", "get_white_balance"}

\* C28: while the engine holds no device handle (never opened, closed, or
\* open_camera failed) get_camera_info and the exposure, gain and white
\* balance accessors never raise: get_camera_info answers with connected
\* false, every setter with its not-connected failure, every getter with
\* its defaults, and none of them touches the device or changes the
\* engine's state.
C28_ClosedDeviceAnswers ==
  [][\A c \in Callers :
       (hcam = None /\ cl[c].pc = "idle" /\ cl'[c] # cl[c]
          /\ cl'[c].op \in SetterOps \cup GetterOps \cup {"get_camera_info"})
         => /\ cl'[c].pc = "idle"
            /\ cl'[c].op \in SetterOps => cl'[c].result = "not_connected"
            /\ cl'[c].op \in GetterOps => cl'[c].result = "defaults"
            /\ cl'[c].op = "get_camera_info" => cl'[c].result = "disconnected"
            /\ UNCHANGED <<engine, device, cache, loopctl, still, th,
                           capture_count>>]_vars

\* get_camera_info has answered "not connected" after an open_camera that
\* failed at Toupcam.Open: the descriptor is set, the handle is not
C28_Witness ==
  /\ cl["c1"].pc = "idle" /\ cl["c1"].op = "get_camera_info"
  /\ cl["c1"].result = "disconnected"
  /\ hcam = None /\ cur # None /\ dev_open = {}

(***************************************************************************)
(* set_capture_resolution from a second service thread while the engine    *)
(* streams and still captures are requested, on either camera.  The device *)
(* delivers every still it was asked for and no wait of the capturing      *)
(* caller expires.                                                         *)
(***************************************************************************)
InitEither == \E id \in CamIds : InitOpened(id)

NextCaptureRes ==
  \/ LoopCapture(1)
  \/ DeviceStillReady
  \/ CaptureCall("c1") \/ CaptureClear("c1") \/ CaptureSnap("c1")
  \/ CaptureWait("c1") \/ CaptureSuccess("c1")
  \/ SetCaptureResolution("c2")

SpecCaptureRes == InitEither /\ [][NextCaptureRes]_vars

\* C27: set_capture_resolution is a pure metadata update.  It accepts index
\* i exactly when 0 <= i < still count, or 0 <= i < preview count on a
\* device without dedicated still modes; an accepted call changes snap_res
\* and nothing else, a rejected call changes nothing; neither performs
\* device I/O, stops or restarts the loop, or touches the frame cache or
\* the pending still request.
C27_CaptureResolutionMetadataOnly ==
  [][\A c \in Callers : \A i \in IndexArgs :
       (cl'[c] # cl[c] /\ SetCaptureResolutionWith(c, i)) =>
         /\ IF 0 <= i /\ i < (IF Cam(cur).still > 0 THEN Cam(cur).still
                                                    ELSE Cam(cur).preview)
            THEN cl'[c].result = "ok" /\ snap_res' = i
            ELSE cl'[c].result = "refused" /\ snap_res' = snap_res
         /\ cl'[c].pc = "idle"
         /\ UNCHANGED <<hcam, cur, res, img_width, img_height, pData, wb, device,
                        loopctl, th, cache, still, capture_count, files>>]_vars

\* index 1 was accepted on the device without still modes (two preview
\* modes) while a frame was in the cache
C27_Witness ==
  /\ cl["c2"].pc = "idle" /\ cl["c2"].op = "set_capture_resolution"
  /\ cl["c2"].result = "ok" /\ snap_res = 1
  /\ cur = CamA.id /\ Cam(cur).still = 0
  /\ is_open /\ current_frame # NoFrame

(***************************************************************************)
(* SpecFps: the fps bookkeeping of the polling thread under a clock.  The   *)
(* engine streams the camera without still modes, time passes in steps of  *)
(* one second, and a caller takes captures and closes the camera.          *)
(***************************************************************************)
MaxTime == 2

InitFps == OpenedState(CamA.id) /\ metered = TRUE

\* time.time() advances
Tick ==
  /\ now < MaxTime
  /\ now' = now + 1
  /\ UNCHANGED <<stats, metered, session, engine, cache, loopctl, still, device,
                 capture_count, th, cl, rd, hist>>

LoopMetered(t) == LoopLife(t) \/ LoopRollover(t) \/ LoopAccumulate(t)

NextFps ==
  \/ LoopMetered(1)
  \/ Tick
  \/ CaptureCall("c1")
  \/ CloseCall("c1")
  \/ CloseCamera("c1")

SpecFps == InitFps /\ [][NextFps]_vars

\* C29: frame_count and capture_count never decrease; at each fps rollover
\* the estimate becomes the number of frames published in the window that
\* ended divided by the length of that window, and frame_count grows by
\* exactly that number
C29_CounterAccounting ==
  [][/\ frame_count' >= frame_count
     /\ capture_count' >= capture_count
     /\ \A t \in Threads :
          /\ (th[t].pc = "rollover" /\ th'[t].pc = "accumulate")
                => fps' = <<th[t].win, th[t].dt>>
          /\ (th[t].pc = "accumulate" /\ th'[t].pc = "still_chk")
                => frame_count' = frame_count + th[t].win]_vars

(***************************************************************************)
(* thread.py: the capture session driven by the serial commands N, C, S.   *)
(* Each command is handled by the serial thread before it reads the next.  *)
(***************************************************************************)
\* the methods class ToupCameraManager defines (camera_manager.py)
ManagerMethods ==
  {"enumerate_cameras", "get_still_resolutions", "open_camera", "close_camera",
   "get_current_frame", "wait_for_frame", "capture_still_image",
   "get_resolutions", "set_resolution", "set_capture_resolution",
   "get_exposure_range", "set_exposure", "get_gain_range", "set_gain",
   "get_auto_exposure", "set_auto_exposure", "get_white_balance",
   "set_white_balance", "auto_white_balance", "get_camera_info"}

\* os.path.join(CAPTURE_ROOT, f"session_{ts}") with ts the time of day to the
\* second (lines 138-139)
SessionDir(ts) == ts + 1

\* attribute lookup on the camera_manager instance
HasMethod(name) == name \in ManagerMethods

\* create_new_session (lines 131-143), command N
CreateNewSession ==
  /\ IF session_locked
     THEN /\ serial_log' = "locked_ignoring_N"
          /\ UNCHANGED <<current_session_dir, session_locked, session_dirs>>
     ELSE /\ current_session_dir' = SessionDir(now)
          /\ session_dirs' = session_dirs \cup {SessionDir(now)}
          /\ session_locked' = TRUE
          /\ serial_log' = "new_session"
  /\ UNCHANGED <<session_files, meter, engine, cache, loopctl, still, device,
                 capture_count, th, cl, rd, hist>>

\* capture_to_session (lines 145-163), command C
CaptureToSession ==
  /\ IF current_session_dir = None
     THEN /\ serial_log' = "no_session_ignoring_C"
          /\ UNCHANGED session_files
     ELSE IF ~is_open
     THEN /\ serial_log' = "camera_not_open"
          /\ UNCHANGED session_files
     ELSE IF HasMethod("capture_image")
     THEN /\ session_files' = session_files \cup {current_session_dir}
          /\ serial_log' = "captured"
     ELSE /\ serial_log' = "capture_failed"
          /\ UNCHANGED session_files
  /\ UNCHANGED <<current_session_dir, session_locked, session_dirs, meter, engine,
                 cache, loopctl, still, device, capture_count, th, cl, rd, hist>>

\* end_session (lines 165-169), command S
EndSession ==
  /\ session_locked' = FALSE
  /\ serial_log' = "session_ended"
  /\ UNCHANGED <<current_session_dir, session_dirs, session_files, meter, engine,
                 cache, loopctl, still, device, capture_count, th, cl, rd, hist>>

\* any other byte (lines 197-198)
UnknownCommand ==
  /\ serial_log' = "unknown_command"
  /\ UNCHANGED <<current_session_dir, session_locked, session_dirs, session_files,
                 meter, engine, cache, loopctl, still, device, capture_count, th,
                 cl, rd, hist>>

\* serial_worker (lines 185-198): one command read and dispatched
SerialWorker ==
  \/ CreateNewSession \/ CaptureToSession \/ EndSession \/ UnknownCommand

(***************************************************************************)
(* SpecSerial: the main program has opened the camera (thread.py, lines    *)
(* 211-212); the serial thread handles commands, time passes, and the      *)
(* camera may be closed meanwhile.  The device delivers no frame.          *)
(***************************************************************************)
InitSerial == InitOpened(CamA.id)

NextSerial ==
  \/ SerialWorker
  \/ Tick
  \/ LoopQuiet(1)
  \/ CloseCall("c1")
  \/ CloseCamera("c1")

SpecSerial == InitSerial /\ [][NextSerial]_vars

\* C30: N creates a new session folder and locks the session; while the
\* session is locked a further N is ignored and leaves current_session_dir
\* unchanged; S unlocks, so that the next N creates a new session; C stores a
\* capture in the current session folder and is ignored when no session
\* exists
C30_SerialSessionProtocol ==
  [][/\ CreateNewSession =>
          IF session_locked
          THEN UNCHANGED <<current_session_dir, session_locked, session_dirs,
                           session_files>>
          ELSE /\ session_locked'
               /\ current_session_dir' \in session_dirs'
               /\ session_dirs' = session_dirs \cup {current_session_dir'}
     /\ EndSession =>
          /\ ~session_locked'
          /\ UNCHANGED <<current_session_dir, session_dirs, session_files>>
     /\ CaptureToSession =>
          /\ UNCHANGED <<current_session_dir, session_locked, session_dirs>>
          /\ IF current_session_dir = None
             THEN UNCHANGED session_files
             ELSE is_open => current_session_dir \in session_files']_vars

(***************************************************************************)
(* SpecBusy: set_resolution called from a second service thread while the  *)
(* first one has a hardware still capture under way.  The device delivers  *)
(* stills and no preview frame, and no wait of the capturing caller        *)
(* expires.                                                                *)
(***************************************************************************)
\* the still coordinator is Requested: the trigger was accepted and the
\* caller waits for the completion (lines 362-374)
StillPending ==
  still_requested /\ \E d \in Callers : cl[d].pc \in {"wait", "blocked"}

\* an index of the preview table of the selected camera
InsideTable(index) == 0 <= index /\ index < Cam(cur).preview

\* the polling loop while the device delivers stills but no preview frame
LoopStills(t) ==
  \/ LoopQuiet(t)
  \/ LoopPeek(t) \/ LoopSave(t) \/ LoopUnrequest(t) \/ LoopComplete(t)

NextBusy ==
  \/ \E t \in Threads : LoopStills(t)
  \/ DeviceStillReady
  \/ CaptureCall("c1") \/ CaptureClear("c1") \/ CaptureSnap("c1")
  \/ CaptureWait("c1") \/ CaptureSuccess("c1")
  \/ SetResolution("c2")

SpecBusy == InitCapture /\ [][NextBusy]_vars

\* C31: a set_resolution call made while a still capture is Requested
\* returns at once with a busy indication; the pending still request, the
\* loop, the device session and the resolution are left as they were
C31_BusyWhileStillRequested ==
  [][\A c \in Callers : \A index \in IndexArgs :
       (/\ cl'[c] # cl[c]
        /\ StillPending /\ InsideTable(index)
        /\ SetResolutionWith(c, index))
         => /\ cl'[c].pc = "idle" /\ cl'[c].result = "busy"
            /\ UNCHANGED <<engine, device, loopctl, still, th>>]_vars

\* the still pulled for request q, saved for request q
StoredFor(q) == [origin |-> q, req |-> q]

\* C32: the outcome reported for a hardware still request agrees with what
\* was stored: the call has returned success exactly when the still pulled
\* for that request is the latest still image and is stored under that
\* request's filename; a failed save or a delivery that races with the
\* timeout yields neither a success without the image nor a timeout with it
C32_OutcomeMatchesStored ==
  \A c \in Callers :
    (cl[c].pc = "idle" /\ cl[c].op = "capture"
       /\ cl[c].result \in {"ok", "timeout"})
      => (cl[c].result = "ok"
            <=> /\ files[cl[c].file] = StoredFor(cl[c].req)
                /\ still_image = StoredFor(cl[c].req))

\* C33: nothing uses the device session after close_camera released it: no
\* step of the polling loop or of a caller calls into a handle that is None
\* or closed (WaitImageV4, PullImageV3, Snap, Stop, put_eSize and
\* StartPullModeWithCallback), and none reads a pixel buffer or a
\* descriptor that is None
C33_NoUseAfterClose ==
  [][/\ \A t \in Threads :
          /\ (th'[t] # th[t] /\ th[t].pc \in {"pull", "peek"}) => HandleLive
          /\ (th'[t] # th[t] /\ th[t].pc = "process") => pData # None
     /\ \A c \in Callers :
          /\ (cl'[c] # cl[c] /\ cl[c].pc \in {"snap", "r_halt", "r_start"})
                => HandleLive
          /\ (cl'[c] # cl[c] /\ cl[c].pc = "r_size") => cur # None]_vars

(***************************************************************************)
(* SpecOpenRace: two service threads call open_camera and close_camera     *)
(* with no order between their calls.  The device delivers no frame.       *)
(***************************************************************************)
NextOpenRace ==
  \/ \E t \in Threads : LoopQuiet(t)
  \/ \E c \in Callers : OpenCamera(c) \/ CloseCall(c) \/ CloseCamera(c)

SpecOpenRace == Init /\ [][NextOpenRace]_vars

\* C34: the engine manages at most one device session: every handle the
\* device has open is the engine's current handle
C34_SingleSession == dev_open \subseteq {hcam}

====
